---- MODULE Spec2Model ----
(***************************************************************************)
(* ADaM alarm-dialog simulator: the policy-aware trial simulation          *)
(* (simulateTrialForUser with presentation policies and operator           *)
(* preemption) of alarm_concepts.js.                                       *)
(*                                                                         *)
(* Number representation.  The JavaScript works on doubles; the model      *)
(* works on exact integers in fixed units:                                 *)
(*   - fatigue, speedFactor: multiples of 1/FatigueUnit (1/6000), the      *)
(*     size of the smallest per-second increment (1/5)^2 / 240;            *)
(*   - accuracy: multiples of 1/(10*FatigueUnit);                          *)
(*   - baseTaskTimeSec, taskTimeJitterSec, jitter draws: half seconds;     *)
(*   - preemptThreshold: tenths;                                           *)
(*   - timestamps: milliseconds; the clock: whole seconds.                 *)
(* null is modelled by Null (-1): no timestamp and no remaining-work       *)
(* value of the program is negative.  A target of null is NoTarget (0);    *)
(* conditions are referred to by their index in trial.conditions.          *)
(***************************************************************************)
EXTENDS Integers, Sequences, FiniteSets, TLC

VARIABLES
    conditions,        \* trial.conditions: sequence of Condition records
    fatigue,           \* trial.fatigue, in 1/FatigueUnit
    userProfile,       \* the UserProfile argument
    presentationPolicy,\* the presentationPolicy argument
    t0,                \* const t0 = Date.now()
    wallClockSec,      \* let wallClockSec
    actionsTaken,      \* let actionsTaken
    accuracyAccum,     \* let accuracyAccum, in 1/(10*FatigueUnit)
    speedFactorAccum,  \* let speedFactorAccum, in 1/FatigueUnit
    totalHarm,         \* let totalHarm
    target,            \* let target (index into conditions, or NoTarget)
    pc,                \* position in simulateTrialForUser
    result,            \* the returned record (Null until the function returns)
    N,                 \* runMonteCarloPolicies: the argument N (0 outside a Monte Carlo run)
    samples,           \* runMonteCarloPolicies: const samples, of the policy in progress
    out                \* runMonteCarloPolicies: const out, one entry per policy done

\* The state of runMonteCarloPolicies
mcVars == <<N, samples, out>>

vars == <<conditions, fatigue, userProfile, presentationPolicy, t0, wallClockSec,
          actionsTaken, accuracyAccum, speedFactorAccum, totalHarm, target, pc, result,
          N, samples, out>>

----------------------------------------------------------------------------
(* Program constants *)

T_SECONDS == 240
P_SEVERITY == 2
DT_SECONDS == 1
SEV_MAX == 5
CapSec == 3600
Infinity == 2000000000

Null == -1
NoTarget == 0

(* Bounds of the model *)
MaxConds == 2
MaxArrival == 2
\* The largest N of a Monte Carlo run
MaxN == 4

----------------------------------------------------------------------------
(* Arithmetic helpers *)

Max(a, b) == IF a >= b THEN a ELSE b
Min(a, b) == IF a <= b THEN a ELSE b

RECURSIVE Pow(_, _)
Pow(b, e) == IF e = 0 THEN 1 ELSE b * Pow(b, e - 1)

\* Math.ceil(a / b) for a >= 0, b > 0
CeilDiv(a, b) == (a + b - 1) \div b

\* One unit of fatigue: fatigue f of the program is fatigue / FatigueUnit here.
FatigueUnit == T_SECONDS * Pow(SEV_MAX, P_SEVERITY)

----------------------------------------------------------------------------
(* class Condition *)

Condition(start_time, severity) ==
    [ start_time       |-> start_time,
      severity         |-> severity,
      shown            |-> FALSE,
      resolved         |-> FALSE,
      startShownTime   |-> Null,
      endResolvedTime  |-> Null,
      workRemainingSec |-> Null,
      workInitialSec   |-> Null ]

(* class Trial *)

\* this.conditions.filter(c => c.shown && !c.resolved)
Active(conds) == { i \in DOMAIN conds : conds[i].shown /\ ~conds[i].resolved }

\* Faulty variant of allResolved: some() where the code has every()
allResolvedAny(conds) == \E i \in DOMAIN conds : conds[i].resolved

allResolved(conds) == \A i \in DOMAIN conds : conds[i].resolved

\* Faulty variant of SumW: the severity weight without the exponent
RECURSIVE SumWLinear(_, _)
SumWLinear(conds, S) ==
    IF S = {} THEN 0
    ELSE LET i == CHOOSE x \in S : TRUE
         IN conds[i].severity * SEV_MAX + SumWLinear(conds, S \ {i})

\* Sum over the conditions S of severity^p, the numerator of (s/SEV_MAX)^p
RECURSIVE SumW(_, _)
SumW(conds, S) ==
    IF S = {} THEN 0
    ELSE LET i == CHOOSE x \in S : TRUE
         IN Pow(conds[i].severity, P_SEVERITY) + SumW(conds, S \ {i})

\* Faulty variant of scoreTerm: severity squared where the code has the cube
scoreTermSquared(c) ==
    << 1000 * Pow(c.severity, 2), c.endResolvedTime - c.startShownTime >>

\* (c.severity ** 3) / time with time = (endResolvedTime - startShownTime) / 1000,
\* as the fraction << numerator, denominator >>
scoreTerm(c) ==
    << 1000 * Pow(c.severity, 3), c.endResolvedTime - c.startShownTime >>

\* totalScore += ... over the conditions S, as a fraction (not reduced)
RECURSIVE ScoreSum(_, _)
ScoreSum(conds, S) ==
    IF S = {} THEN << 0, 1 >>
    ELSE LET i == CHOOSE x \in S : TRUE
             term == scoreTerm(conds[i])
             rest == ScoreSum(conds, S \ {i})
         IN << term[1] * rest[2] + rest[1] * term[2], term[2] * rest[2] >>

\* calculateScore(): only conditions with c.resolved && c.startShownTime &&
\* c.endResolvedTime count (null and 0 are falsy)
calculateScore(conds) ==
    ScoreSum(conds, { i \in DOMAIN conds :
                        /\ conds[i].resolved
                        /\ conds[i].startShownTime # Null /\ conds[i].startShownTime # 0
                        /\ conds[i].endResolvedTime # Null /\ conds[i].endResolvedTime # 0 })

\* Faulty variant of calculateFatigue: the integral step without the clamp
calculateFatigueNoClamp(conds, f, dtSec) ==
    f + dtSec * SumW(conds, Active(conds))

\* Faulty variant of calculateFatigue: every shown condition counts, resolved or not
calculateFatigueAllShown(conds, f, dtSec) ==
    Max(0, Min(FatigueUnit,
               f + dtSec * SumW(conds, { i \in DOMAIN conds : conds[i].shown })))

\* f + (dtSec / T_SECONDS) * sum (s/SEV_MAX)^p, clamped to [0,1]
calculateFatigue(conds, f, dtSec) ==
    Max(0, Min(FatigueUnit, f + dtSec * SumW(conds, Active(conds))))

\* 1 - fatigue, in 1/FatigueUnit
speedFactor(f) == FatigueUnit - f

\* Faulty variant of accuracy: without the factor 0.9
accuracyNoScale(f) == 10 * (FatigueUnit - f)

\* 0.9 * (1 - fatigue), in 1/(10*FatigueUnit)
accuracy(f) == 9 * (FatigueUnit - f)

----------------------------------------------------------------------------
(* presentAccordingToPolicy and its helpers *)

\* Faulty variant of show: the timestamp is rewritten at every reveal
showOverwrite(conds, i, wallClock, t0ms) ==
    IF ~conds[i].shown
    THEN [conds EXCEPT ![i].shown = TRUE,
                       ![i].startShownTime = t0ms + wallClock * 1000]
    ELSE conds

\* Faulty variant of show: the timestamp written without the base t0ms
showNoBase(conds, i, wallClock, t0ms) ==
    IF ~conds[i].shown
    THEN [conds EXCEPT ![i].shown = TRUE,
                       ![i].startShownTime =
                           IF @ = Null THEN wallClock * 1000 ELSE @]
    ELSE conds

\* show(c): first-show semantics, the timestamp is written only while null
show(conds, i, wallClock, t0ms) ==
    IF ~conds[i].shown
    THEN [conds EXCEPT ![i].shown = TRUE,
                       ![i].startShownTime =
                           IF @ = Null THEN t0ms + wallClock * 1000 ELSE @]
    ELSE conds

\* Faulty variant of hide: the re-hide also forgets the first-show timestamp
hideClearStamp(conds, i) ==
    [conds EXCEPT ![i].shown = FALSE, ![i].startShownTime = Null]

\* hide(c)
hide(conds, i) == [conds EXCEPT ![i].shown = FALSE]

\* Faulty variant of policyCompare: equal severities ranked by the later arrival
policyCompareLatest(conds, a, b) ==
    IF conds[b].severity - conds[a].severity # 0
    THEN conds[b].severity - conds[a].severity
    ELSE conds[b].start_time - conds[a].start_time

\* The comparator (a, b) => b.severity - a.severity || a.start_time - b.start_time
policyCompare(conds, a, b) ==
    IF conds[b].severity - conds[a].severity # 0
    THEN conds[b].severity - conds[a].severity
    ELSE conds[a].start_time - conds[b].start_time

\* Element [0] of S sorted by the comparator compare (a function of two
\* indices); Array.prototype.sort is stable and filter keeps the order of
\* trial.conditions, so ties go to the lower index.  NoTarget for the empty
\* array ([][0] is undefined, which is falsy).
SortedFirst(S, compare) ==
    IF S = {} THEN NoTarget
    ELSE CHOOSE a \in S : \A b \in S \ {a} :
             \/ compare[a, b] < 0
             \/ compare[a, b] = 0 /\ a < b

\* Faulty variant of presentShowAll: the filter without c.start_time <= wallClockSec
presentShowAllNoArrival(conds, wallClock, t0ms) ==
    [ i \in DOMAIN conds |->
        IF ~conds[i].shown /\ ~conds[i].resolved
        THEN show(conds, i, wallClock, t0ms)[i]
        ELSE conds[i] ]

\* Faulty variant of presentShowAll: c.start_time < wallClockSec, one second late
presentShowAllStrict(conds, wallClock, t0ms) ==
    [ i \in DOMAIN conds |->
        IF ~conds[i].shown /\ ~conds[i].resolved /\ conds[i].start_time < wallClock
        THEN show(conds, i, wallClock, t0ms)[i]
        ELSE conds[i] ]

\* 1) showAll: reveal everything that has arrived
presentShowAll(conds, wallClock, t0ms) ==
    [ i \in DOMAIN conds |->
        IF ~conds[i].shown /\ ~conds[i].resolved /\ conds[i].start_time <= wallClock
        THEN show(conds, i, wallClock, t0ms)[i]
        ELSE conds[i] ]

\* Faulty variant of presentSingleHighest: without the early return that keeps
\* the current visible condition
presentSingleHighestNoKeep(conds, wallClock, t0ms) ==
    LET outstanding == { i \in DOMAIN conds :
                           /\ ~conds[i].resolved
                           /\ conds[i].start_time <= wallClock
                           /\ ~conds[i].shown }
        first == SortedFirst(outstanding, [a, b \in outstanding |-> policyCompare(conds, a, b)])
    IN IF outstanding # {} THEN show(conds, first, wallClock, t0ms)
       ELSE conds

\* 2) singleHighest: keep the current one until resolved, else pick the highest arrived
presentSingleHighest(conds, wallClock, t0ms) ==
    LET shownActive == Active(conds)
        outstanding == { i \in DOMAIN conds :
                           /\ ~conds[i].resolved
                           /\ conds[i].start_time <= wallClock
                           /\ ~conds[i].shown }
        first == SortedFirst(outstanding, [a, b \in outstanding |-> policyCompare(conds, a, b)])
    IN IF shownActive # {} THEN conds
       ELSE IF outstanding # {} THEN show(conds, first, wallClock, t0ms)
       ELSE conds

\* Faulty variant of presentSeverityEscalation: equal severities ranked by the
\* later arrival, and the switch taken on >= instead of >
presentSeverityEscalationOnEqual(conds, wallClock, t0ms) ==
    LET shownActive == Active(conds)
        current == IF shownActive = {} THEN NoTarget
                   ELSE CHOOSE i \in shownActive : \A j \in shownActive : i <= j
        arrived == { i \in DOMAIN conds :
                       ~conds[i].resolved /\ conds[i].start_time <= wallClock }
        highestArrived == SortedFirst(arrived, [a, b \in arrived |->
                              IF conds[b].severity - conds[a].severity # 0
                              THEN conds[b].severity - conds[a].severity
                              ELSE conds[b].start_time - conds[a].start_time])
    IN IF current = NoTarget
       THEN IF highestArrived # NoTarget
            THEN show(conds, highestArrived, wallClock, t0ms)
            ELSE conds
       ELSE IF highestArrived # NoTarget
                 /\ conds[highestArrived].severity >= conds[current].severity
            THEN show(hide(conds, current), highestArrived, wallClock, t0ms)
            ELSE conds

\* Faulty variant of presentSeverityEscalation: the current condition is kept
\* whatever has arrived (the switch is never taken)
presentSeverityEscalationNoSwitch(conds, wallClock, t0ms) ==
    LET shownActive == Active(conds)
        current == IF shownActive = {} THEN NoTarget
                   ELSE CHOOSE i \in shownActive : \A j \in shownActive : i <= j
        arrived == { i \in DOMAIN conds :
                       ~conds[i].resolved /\ conds[i].start_time <= wallClock }
        highestArrived == SortedFirst(arrived, [a, b \in arrived |-> policyCompare(conds, a, b)])
    IN IF current = NoTarget /\ highestArrived # NoTarget
       THEN show(conds, highestArrived, wallClock, t0ms)
       ELSE conds

\* Faulty variant of presentSeverityEscalation: the higher condition is
\* shown without hiding the current one
presentSeverityEscalationNoHide(conds, wallClock, t0ms) ==
    LET shownActive == Active(conds)
        current == IF shownActive = {} THEN NoTarget
                   ELSE CHOOSE i \in shownActive : \A j \in shownActive : i <= j
        arrived == { i \in DOMAIN conds :
                       ~conds[i].resolved /\ conds[i].start_time <= wallClock }
        highestArrived == SortedFirst(arrived, [a, b \in arrived |-> policyCompare(conds, a, b)])
    IN IF current = NoTarget
       THEN IF highestArrived # NoTarget
            THEN show(conds, highestArrived, wallClock, t0ms)
            ELSE conds
       ELSE IF highestArrived # NoTarget
                 /\ conds[highestArrived].severity > conds[current].severity
            THEN show(conds, highestArrived, wallClock, t0ms)
            ELSE conds

\* 3) severityEscalation: if a higher severity has arrived, switch to it.
\* current = shownActive[0] || null: the lowest index among the active ones.
presentSeverityEscalation(conds, wallClock, t0ms) ==
    LET shownActive == Active(conds)
        current == IF shownActive = {} THEN NoTarget
                   ELSE CHOOSE i \in shownActive : \A j \in shownActive : i <= j
        arrived == { i \in DOMAIN conds :
                       ~conds[i].resolved /\ conds[i].start_time <= wallClock }
        highestArrived == SortedFirst(arrived, [a, b \in arrived |-> policyCompare(conds, a, b)])
    IN IF current = NoTarget
       THEN IF highestArrived # NoTarget
            THEN show(conds, highestArrived, wallClock, t0ms)
            ELSE conds
       ELSE IF highestArrived # NoTarget
                 /\ conds[highestArrived].severity > conds[current].severity
            THEN show(hide(conds, current), highestArrived, wallClock, t0ms)
            ELSE conds

\* Faulty variant of presentFallback: without the early return on a visible condition
presentFallbackNoKeep(conds, wallClock, t0ms) ==
    LET outstanding == { i \in DOMAIN conds :
                           /\ ~conds[i].resolved
                           /\ conds[i].start_time <= wallClock
                           /\ ~conds[i].shown }
        first == SortedFirst(outstanding, [a, b \in outstanding |-> policyCompare(conds, a, b)])
    IN IF outstanding # {} THEN show(conds, first, wallClock, t0ms)
       ELSE conds

\* Fallback for any other policy name: the non-interrupting singleHighest, written out again
presentFallback(conds, wallClock, t0ms) ==
    LET shownActive == Active(conds)
        outstanding == { i \in DOMAIN conds :
                           /\ ~conds[i].resolved
                           /\ conds[i].start_time <= wallClock
                           /\ ~conds[i].shown }
        first == SortedFirst(outstanding, [a, b \in outstanding |-> policyCompare(conds, a, b)])
    IN IF shownActive # {} THEN conds
       ELSE IF outstanding # {} THEN show(conds, first, wallClock, t0ms)
       ELSE conds

presentAccordingToPolicy(conds, wallClock, policy, t0ms) ==
    IF policy = "showAll" THEN presentShowAll(conds, wallClock, t0ms)
    ELSE IF policy \in {"singleHighestNonInterrupting", "singleHighest"}
         THEN presentSingleHighest(conds, wallClock, t0ms)
    ELSE IF policy = "severityEscalation"
         THEN presentSeverityEscalation(conds, wallClock, t0ms)
    ELSE presentFallback(conds, wallClock, t0ms)

----------------------------------------------------------------------------
(* pickNextAlarm and highestShownUnresolved *)

\* x || 0 and x || Infinity: null and 0 are falsy
OrZero(x) == IF x = Null \/ x = 0 THEN 0 ELSE x
OrInfinity(x) == IF x = Null \/ x = 0 THEN Infinity ELSE x

\* Faulty variant of earliestShownCompare: the operands swapped, latest shown first
earliestShownCompareLatest(conds, a, b) ==
    OrInfinity(conds[b].startShownTime) - OrInfinity(conds[a].startShownTime)

\* (a,b) => (a.startShownTime||Infinity) - (b.startShownTime||Infinity);
\* Infinity - Infinity is NaN, which sort treats as 0
earliestShownCompare(conds, a, b) ==
    OrInfinity(conds[a].startShownTime) - OrInfinity(conds[b].startShownTime)

\* Faulty variant of highestSeverityCompare: severity only, no tie-break
highestSeverityCompareNoTie(conds, a, b) ==
    conds[b].severity - conds[a].severity

\* (a,b) => b.severity - a.severity || (a.startShownTime||0) - (b.startShownTime||0)
highestSeverityCompare(conds, a, b) ==
    IF conds[b].severity - conds[a].severity # 0
    THEN conds[b].severity - conds[a].severity
    ELSE OrZero(conds[a].startShownTime) - OrZero(conds[b].startShownTime)

\* Faulty variant of pickNextAlarm: the filter without !c.resolved
pickNextAlarmAnyShown(conds, taskStrategy) ==
    LET active == { i \in DOMAIN conds : conds[i].shown }
    IN IF taskStrategy = "earliestShown"
       THEN SortedFirst(active, [a, b \in active |-> earliestShownCompare(conds, a, b)])
       ELSE SortedFirst(active, [a, b \in active |-> highestSeverityCompare(conds, a, b)])

pickNextAlarm(conds, taskStrategy) ==
    LET active == Active(conds)
    IN IF taskStrategy = "earliestShown"
       THEN SortedFirst(active, [a, b \in active |-> earliestShownCompare(conds, a, b)])
       ELSE SortedFirst(active, [a, b \in active |-> highestSeverityCompare(conds, a, b)])

\* Faulty variant of highestShownUnresolved: the filter forgets c.shown
highestUnresolved(conds) ==
    LET shown == { i \in DOMAIN conds : ~conds[i].resolved }
    IN SortedFirst(shown, [a, b \in shown |-> highestSeverityCompare(conds, a, b)])

highestShownUnresolved(conds) ==
    LET shown == Active(conds)
    IN SortedFirst(shown, [a, b \in shown |-> highestSeverityCompare(conds, a, b)])

----------------------------------------------------------------------------
(* simulateTrialForUser *)

\* Math.random() * taskTimeJitterSec lies in [0, taskTimeJitterSec); the model
\* draws it on the half-second grid.
JitterDraws(profile) ==
    IF profile.taskTimeJitterSec = 0 THEN {0}
    ELSE 0 .. (profile.taskTimeJitterSec - 1)

\* Faulty variant of effectiveTaskSeconds: the speed factor floored at 0.01
effectiveTaskSecondsLowFloor(profile, jitter, f) ==
    LET nominalTask == profile.baseTaskTimeSec + jitter
        sf == Max(FatigueUnit \div 100, speedFactor(f))
    IN IF nominalTask * FatigueUnit <= sf
       THEN 1
       ELSE CeilDiv(nominalTask * FatigueUnit, 2 * sf)

\* Faulty variant of effectiveTaskSeconds: Math.floor where the code has Math.ceil
effectiveTaskSecondsFloor(profile, jitter, f) ==
    LET nominalTask == profile.baseTaskTimeSec + jitter
        sf == Max(FatigueUnit \div 10, speedFactor(f))
    IN IF nominalTask * FatigueUnit <= sf
       THEN 0
       ELSE (nominalTask * FatigueUnit) \div (2 * sf)

\* Math.ceil(Math.max(0.5, nominalTask / Math.max(0.1, speedFactorAtStart)))
\* with nominalTask = baseTaskTimeSec + jitter (half seconds) and the speed
\* factor 1 - f (in 1/FatigueUnit): the quotient is
\* (nominal/2) / (sf/FatigueUnit) = nominal*FatigueUnit / (2*sf); it is at
\* most 0.5 when nominal*FatigueUnit <= sf, and Math.ceil(0.5) is 1.
effectiveTaskSeconds(profile, jitter, f) ==
    LET nominalTask == profile.baseTaskTimeSec + jitter
        sf == Max(FatigueUnit \div 10, speedFactor(f))
    IN IF nominalTask * FatigueUnit <= sf
       THEN 1
       ELSE CeilDiv(nominalTask * FatigueUnit, 2 * sf)

\* Faulty variant of openSession: a task time is drawn at every selection,
\* without the null check
openSessionAlways(conds, tgt, profile, jitter, f) ==
    [conds EXCEPT ![tgt].workRemainingSec = effectiveTaskSeconds(profile, jitter, f),
                  ![tgt].workInitialSec   = effectiveTaskSeconds(profile, jitter, f)]

\* if (target._workRemainingSec == null) { ... } : open a work session
openSession(conds, tgt, profile, jitter, f) ==
    IF conds[tgt].workRemainingSec = Null
    THEN [conds EXCEPT ![tgt].workRemainingSec = effectiveTaskSeconds(profile, jitter, f),
                       ![tgt].workInitialSec   = effectiveTaskSeconds(profile, jitter, f)]
    ELSE conds

\* Faulty variant of progressBelowThreshold: <= where the code has <
progressBelowThresholdInclusive(c, preemptThreshold) ==
    LET initial == Max(1, c.workInitialSec)
    IN 10 * (initial - c.workRemainingSec) <= preemptThreshold * initial

\* progressFrac < preemptThreshold, with
\* progressFrac = 1 - remaining / Math.max(1, initial) and the threshold in tenths
progressBelowThreshold(c, preemptThreshold) ==
    LET initial == Max(1, c.workInitialSec)
    IN 10 * (initial - c.workRemainingSec) < preemptThreshold * initial

\* Faulty variant of preempts: the test taken under every task strategy
preemptsAnyStrategy(conds, tgt, profile) ==
    LET topShown == highestShownUnresolved(conds)
    IN /\ topShown # NoTarget
       /\ topShown # tgt
       /\ conds[topShown].severity > conds[tgt].severity
       /\ progressBelowThreshold(conds[tgt], profile.preemptThreshold)

\* Faulty variant of preempts: the switch is made without the test of the
\* progress fraction against the threshold
preemptsIgnoreProgress(conds, tgt, profile) ==
    LET topShown == highestShownUnresolved(conds)
    IN /\ profile.taskStrategy = "preemptOnHigherSeverity"
       /\ topShown # NoTarget
       /\ topShown # tgt
       /\ conds[topShown].severity > conds[tgt].severity

\* The preemption test of the work loop, on the conditions as the policy left them
preempts(conds, tgt, profile) ==
    LET topShown == highestShownUnresolved(conds)
    IN /\ profile.taskStrategy = "preemptOnHigherSeverity"
       /\ topShown # NoTarget
       /\ topShown # tgt
       /\ conds[topShown].severity > conds[tgt].severity
       /\ progressBelowThreshold(conds[tgt], profile.preemptThreshold)

\* The cap test: if (wallClockSec > 3600) break
overCap(clock) == clock > CapSec

----------------------------------------------------------------------------
(* Inputs *)

\* Severities, policy names and operator profiles the trials are drawn from
SevSet == {1, 3, 5}
MainPolicies == {"showAll", "singleHighest", "severityEscalation"}
\* The alias of singleHighest, and a name no branch recognizes
OtherPolicies == {"singleHighestNonInterrupting", "otherPolicy"}
T0Set == {5000}

Profile(base, jit, strategy, threshold) ==
    [ name |-> "op", baseTaskTimeSec |-> base, taskTimeJitterSec |-> jit,
      taskStrategy |-> strategy, preemptThreshold |-> threshold ]

\* Tasks of 0.5 s and of 2 s without jitter under every strategy (0.8 is the
\* default threshold), and a task of 2 s with up to 1 s of jitter
SmallProfiles ==
    { Profile(b, 0, s, 8) : b \in {1, 4}, s \in {"highestSeverity", "earliestShown"} }
    \cup
    { Profile(b, 0, "preemptOnHigherSeverity", th) : b \in {1, 4}, th \in {0, 5, 8} }
    \cup
    { Profile(4, 2, "preemptOnHigherSeverity", 8) }

OtherPolicyProfiles ==
    { Profile(1, 0, "highestSeverity", 8), Profile(4, 0, "preemptOnHigherSeverity", 8) }

\* new Trial(name, n) with start_time redrawn in 0..horizonArrivalSec
SmallTrials ==
    UNION { [1..n -> (0..MaxArrival) \X SevSet] : n \in 0..MaxConds }

SmallConfigs ==
    [ trial : SmallTrials, profile : SmallProfiles, policy : MainPolicies ]
    \cup
    [ trial : SmallTrials, profile : OtherPolicyProfiles, policy : OtherPolicies ]

\* Long trials: a task of 4000 s, alone, and one preempted by an arrival at
\* second 3601, both cut by the cap; and one that ends within the cap
LongConfigs ==
    { [ trial |-> << <<0, 5>> >>,
        profile |-> Profile(8000, 0, "highestSeverity", 8),
        policy |-> "showAll" ],
      [ trial |-> << <<0, 3>>, <<3601, 5>> >>,
        profile |-> Profile(8000, 0, "preemptOnHigherSeverity", 10),
        policy |-> "showAll" ],
      \* two tasks of 179.5 s: the second opens at fatigue 1 and takes 1795 s
      [ trial |-> << <<0, 5>>, <<0, 5>> >>,
        profile |-> Profile(359, 0, "highestSeverity", 8),
        policy |-> "showAll" ] }

\* Trials of three conditions in which two conditions compete after the
\* first is resolved at second 2: equal severities that arrived (and, under
\* showAll, were shown) at different seconds, the later one at the lower
\* index; and a low severity shown at second 0 against a high one shown later
TieConfigs ==
    { [ trial |-> << <<0, 1>>, <<2, 3>>, <<1, 3>> >>,
        profile |-> Profile(4, 0, "highestSeverity", 8),
        policy |-> "singleHighest" ],
      [ trial |-> << <<0, 5>>, <<2, 3>>, <<1, 3>> >>,
        profile |-> Profile(4, 0, "highestSeverity", 8),
        policy |-> "showAll" ],
      [ trial |-> << <<0, 3>>, <<1, 5>>, <<0, 1>> >>,
        profile |-> Profile(4, 0, "earliestShown", 8),
        policy |-> "showAll" ] }

\* A task of 10 s on a severity-2 condition that arrives at second 0, a
\* severity-5 condition arriving at second 1, a preempting operator with the
\* default threshold
ScenarioConfigs ==
    { [ trial |-> << <<0, 2>>, <<1, 5>> >>,
        profile |-> Profile(20, 0, "preemptOnHigherSeverity", 8),
        policy |-> "showAll" ] }

Configs == SmallConfigs \cup LongConfigs \cup TieConfigs \cup ScenarioConfigs

----------------------------------------------------------------------------
(* The state machine *)

Init ==
    \E cfg \in Configs, base \in T0Set :
        /\ conditions = [ i \in DOMAIN cfg.trial |->
                            Condition(cfg.trial[i][1], cfg.trial[i][2]) ]
        /\ fatigue = 0
        /\ userProfile = cfg.profile
        /\ presentationPolicy = cfg.policy
        /\ t0 = base
        /\ wallClockSec = 0
        /\ actionsTaken = 0
        /\ accuracyAccum = 0
        /\ speedFactorAccum = 0
        /\ totalHarm = 0
        /\ target = NoTarget
        /\ pc = "loop"
        /\ result = Null
        /\ N = 0
        /\ samples = << >>
        /\ out = << >>

\* while (!trial.allResolved()) is false: leave the loop
LoopExit ==
    /\ pc = "loop"
    /\ allResolved(conditions)
    /\ pc' = "return"
    /\ UNCHANGED <<conditions, fatigue, userProfile, presentationPolicy, t0, wallClockSec,
                   actionsTaken, accuracyAccum, speedFactorAccum, totalHarm, target, result>>
    /\ UNCHANGED mcVars

\* Loop body up to the work loop: present, pick, open the session of a new target
SelectTarget ==
    /\ pc = "loop"
    /\ ~allResolved(conditions)
    /\ LET presented == presentAccordingToPolicy(conditions, wallClockSec,
                                                 presentationPolicy, t0)
           picked == pickNextAlarm(presented, userProfile.taskStrategy)
       IN IF picked # NoTarget
          THEN \E jitter \in JitterDraws(userProfile) :
                  /\ conditions' = openSession(presented, picked, userProfile, jitter, fatigue)
                  /\ target' = picked
                  /\ pc' = "work"
          ELSE /\ conditions' = presented
               /\ target' = NoTarget
               /\ pc' = "idle"
    /\ UNCHANGED <<fatigue, userProfile, presentationPolicy, t0, wallClockSec,
                   actionsTaken, accuracyAccum, speedFactorAccum, totalHarm, result>>
    /\ UNCHANGED mcVars

\* Faulty variant of PreemptTick: the second of work is credited to the old
\* target before the operator switches
PreemptTickAfterWork ==
    /\ pc = "work"
    /\ conditions[target].workRemainingSec > 0
    /\ LET presented == presentAccordingToPolicy(conditions, wallClockSec + 1,
                                                 presentationPolicy, t0)
           after == calculateFatigue(conditions, fatigue, 1)
       IN /\ preempts(presented, target, userProfile)
          /\ fatigue' = after
          /\ \E jitter \in JitterDraws(userProfile) :
                conditions' = openSession([presented EXCEPT ![target].workRemainingSec = @ - 1],
                                          highestShownUnresolved(presented),
                                          userProfile, jitter, after)
          /\ target' = highestShownUnresolved(presented)
    /\ wallClockSec' = wallClockSec + 1
    /\ pc' = "work"
    /\ UNCHANGED <<userProfile, presentationPolicy, t0, actionsTaken, accuracyAccum,
                   speedFactorAccum, totalHarm, result>>
    /\ UNCHANGED mcVars

\* One pass of the work loop that ends in "continue": fatigue, clock, policy,
\* and the operator switches to the higher-severity condition
PreemptTick ==
    /\ pc = "work"
    /\ conditions[target].workRemainingSec > 0
    /\ LET presented == presentAccordingToPolicy(conditions, wallClockSec + 1,
                                                 presentationPolicy, t0)
           after == calculateFatigue(conditions, fatigue, 1)
       IN /\ preempts(presented, target, userProfile)
          /\ fatigue' = after
          /\ \E jitter \in JitterDraws(userProfile) :
                conditions' = openSession(presented, highestShownUnresolved(presented),
                                          userProfile, jitter, after)
          /\ target' = highestShownUnresolved(presented)
    /\ wallClockSec' = wallClockSec + 1
    /\ pc' = "work"
    /\ UNCHANGED <<userProfile, presentationPolicy, t0, actionsTaken, accuracyAccum,
                   speedFactorAccum, totalHarm, result>>
    /\ UNCHANGED mcVars

\* Faulty variant of WorkTick: the second of work is done without
\* advancing the simulated clock
WorkTickNoClock ==
    /\ pc = "work"
    /\ conditions[target].workRemainingSec > 0
    /\ LET presented == presentAccordingToPolicy(conditions, wallClockSec,
                                                 presentationPolicy, t0)
       IN /\ ~preempts(presented, target, userProfile)
          /\ conditions' = [presented EXCEPT ![target].workRemainingSec = @ - 1]
    /\ fatigue' = calculateFatigue(conditions, fatigue, 1)
    /\ wallClockSec' = wallClockSec
    /\ pc' = IF overCap(wallClockSec') \/ conditions'[target].workRemainingSec <= 0
             THEN "resolve" ELSE "work"
    /\ UNCHANGED <<userProfile, presentationPolicy, t0, actionsTaken, accuracyAccum,
                   speedFactorAccum, totalHarm, target, result>>
    /\ UNCHANGED mcVars

\* Faulty variant of WorkTick: the second of work is credited to every
\* condition that has an open session, not to the target alone
WorkTickAllSessions ==
    /\ pc = "work"
    /\ conditions[target].workRemainingSec > 0
    /\ LET presented == presentAccordingToPolicy(conditions, wallClockSec + 1,
                                                 presentationPolicy, t0)
       IN /\ ~preempts(presented, target, userProfile)
          /\ conditions' = [ i \in DOMAIN presented |->
                               IF presented[i].workRemainingSec # Null
                                  /\ presented[i].workRemainingSec > 0
                               THEN [presented[i] EXCEPT !.workRemainingSec = @ - 1]
                               ELSE presented[i] ]
    /\ fatigue' = calculateFatigue(conditions, fatigue, 1)
    /\ wallClockSec' = wallClockSec + 1
    /\ pc' = IF overCap(wallClockSec') \/ conditions'[target].workRemainingSec <= 0
             THEN "resolve" ELSE "work"
    /\ UNCHANGED <<userProfile, presentationPolicy, t0, actionsTaken, accuracyAccum,
                   speedFactorAccum, totalHarm, target, result>>
    /\ UNCHANGED mcVars

\* One pass of the work loop that does a second of work: fatigue, clock, policy,
\* decrement, cap test, and the loop condition
WorkTick ==
    /\ pc = "work"
    /\ conditions[target].workRemainingSec > 0
    /\ LET presented == presentAccordingToPolicy(conditions, wallClockSec + 1,
                                                 presentationPolicy, t0)
       IN /\ ~preempts(presented, target, userProfile)
          /\ conditions' = [presented EXCEPT ![target].workRemainingSec = @ - 1]
    /\ fatigue' = calculateFatigue(conditions, fatigue, 1)
    /\ wallClockSec' = wallClockSec + 1
    /\ pc' = IF overCap(wallClockSec') \/ conditions'[target].workRemainingSec <= 0
             THEN "resolve" ELSE "work"
    /\ UNCHANGED <<userProfile, presentationPolicy, t0, actionsTaken, accuracyAccum,
                   speedFactorAccum, totalHarm, target, result>>
    /\ UNCHANGED mcVars

\* Faulty variant of Resolve: endResolvedTime keeps the Date.now() of
\* Condition.resolve(), the real time of the run (t0), instead of the simulated clock
ResolveRealTime ==
    /\ pc = "resolve"
    /\ IF conditions[target].workRemainingSec <= 0
       THEN /\ conditions' = [conditions EXCEPT
                                ![target].resolved = TRUE,
                                ![target].endResolvedTime = t0,
                                ![target].workRemainingSec = Null,
                                ![target].workInitialSec = Null]
            /\ actionsTaken' = actionsTaken + 1
            /\ accuracyAccum' = accuracyAccum + accuracy(fatigue)
            /\ speedFactorAccum' = speedFactorAccum + speedFactor(fatigue)
            /\ totalHarm' = totalHarm
                  + Max(0, wallClockSec - conditions[target].start_time)
                    * Pow(conditions[target].severity, 2)
       ELSE UNCHANGED <<conditions, actionsTaken, accuracyAccum, speedFactorAccum, totalHarm>>
    /\ pc' = IF overCap(wallClockSec) THEN "return" ELSE "loop"
    /\ UNCHANGED <<fatigue, userProfile, presentationPolicy, t0, wallClockSec, target, result>>
    /\ UNCHANGED mcVars

\* Faulty variant of Resolve: the harm weighted by severity, not its square
ResolveHarmLinear ==
    /\ pc = "resolve"
    /\ IF conditions[target].workRemainingSec <= 0
       THEN /\ conditions' = [conditions EXCEPT
                                ![target].resolved = TRUE,
                                ![target].endResolvedTime = t0 + wallClockSec * 1000,
                                ![target].workRemainingSec = Null,
                                ![target].workInitialSec = Null]
            /\ actionsTaken' = actionsTaken + 1
            /\ accuracyAccum' = accuracyAccum + accuracy(fatigue)
            /\ speedFactorAccum' = speedFactorAccum + speedFactor(fatigue)
            /\ totalHarm' = totalHarm
                  + Max(0, wallClockSec - conditions[target].start_time)
                    * conditions[target].severity
       ELSE UNCHANGED <<conditions, actionsTaken, accuracyAccum, speedFactorAccum, totalHarm>>
    /\ pc' = IF overCap(wallClockSec) THEN "return" ELSE "loop"
    /\ UNCHANGED <<fatigue, userProfile, presentationPolicy, t0, wallClockSec, target, result>>
    /\ UNCHANGED mcVars

\* Faulty variant of Resolve: the work trackers are not cleared
ResolveKeepFields ==
    /\ pc = "resolve"
    /\ IF conditions[target].workRemainingSec <= 0
       THEN /\ conditions' = [conditions EXCEPT
                                ![target].resolved = TRUE,
                                ![target].endResolvedTime = t0 + wallClockSec * 1000]
            /\ actionsTaken' = actionsTaken + 1
            /\ accuracyAccum' = accuracyAccum + accuracy(fatigue)
            /\ speedFactorAccum' = speedFactorAccum + speedFactor(fatigue)
            /\ totalHarm' = totalHarm
                  + Max(0, wallClockSec - conditions[target].start_time)
                    * Pow(conditions[target].severity, 2)
       ELSE UNCHANGED <<conditions, actionsTaken, accuracyAccum, speedFactorAccum, totalHarm>>
    /\ pc' = IF overCap(wallClockSec) THEN "return" ELSE "loop"
    /\ UNCHANGED <<fatigue, userProfile, presentationPolicy, t0, wallClockSec, target, result>>
    /\ UNCHANGED mcVars

\* After the work loop: resolve the target if its work is done, tally, cap test
Resolve ==
    /\ pc = "resolve"
    /\ IF conditions[target].workRemainingSec <= 0
       THEN /\ conditions' = [conditions EXCEPT
                                ![target].resolved = TRUE,
                                ![target].endResolvedTime = t0 + wallClockSec * 1000,
                                ![target].workRemainingSec = Null,
                                ![target].workInitialSec = Null]
            /\ actionsTaken' = actionsTaken + 1
            /\ accuracyAccum' = accuracyAccum + accuracy(fatigue)
            /\ speedFactorAccum' = speedFactorAccum + speedFactor(fatigue)
            /\ totalHarm' = totalHarm
                  + Max(0, wallClockSec - conditions[target].start_time)
                    * Pow(conditions[target].severity, 2)
       ELSE UNCHANGED <<conditions, actionsTaken, accuracyAccum, speedFactorAccum, totalHarm>>
    /\ pc' = IF overCap(wallClockSec) THEN "return" ELSE "loop"
    /\ UNCHANGED <<fatigue, userProfile, presentationPolicy, t0, wallClockSec, target, result>>
    /\ UNCHANGED mcVars

\* Idle second: no target
IdleTick ==
    /\ pc = "idle"
    /\ fatigue' = calculateFatigue(conditions, fatigue, 1)
    /\ wallClockSec' = wallClockSec + 1
    /\ conditions' = presentAccordingToPolicy(conditions, wallClockSec + 1,
                                              presentationPolicy, t0)
    /\ pc' = IF overCap(wallClockSec') THEN "return" ELSE "loop"
    /\ UNCHANGED <<userProfile, presentationPolicy, t0, actionsTaken, accuracyAccum,
                   speedFactorAccum, totalHarm, target, result>>
    /\ UNCHANGED mcVars

\* Faulty variant of Return: the accuracy reported when nothing was resolved
\* is 1.0 in place of 0.9
ReturnBaselineOne ==
    /\ pc = "return"
    /\ result' = [ user           |-> userProfile.name,
                   totalTimeSec   |-> wallClockSec,
                   finalFatigue   |-> fatigue,
                   avgAccuracy    |-> IF actionsTaken # 0
                                      THEN <<accuracyAccum, actionsTaken * 10 * FatigueUnit>>
                                      ELSE <<1, 1>>,
                   avgSpeedFactor |-> IF actionsTaken # 0
                                      THEN <<speedFactorAccum, actionsTaken * FatigueUnit>>
                                      ELSE <<1, 1>>,
                   resolved       |-> actionsTaken,
                   totalHarm      |-> totalHarm ]
    /\ pc' = "done"
    /\ UNCHANGED <<conditions, fatigue, userProfile, presentationPolicy, t0, wallClockSec,
                   actionsTaken, accuracyAccum, speedFactorAccum, totalHarm, target>>
    /\ UNCHANGED mcVars

\* The averages and the returned record; a mean is the pair <<sum, divisor>>
Return ==
    /\ pc = "return"
    /\ result' = [ user           |-> userProfile.name,
                   totalTimeSec   |-> wallClockSec,
                   finalFatigue   |-> fatigue,
                   avgAccuracy    |-> IF actionsTaken # 0
                                      THEN <<accuracyAccum, actionsTaken * 10 * FatigueUnit>>
                                      ELSE <<9, 10>>,
                   avgSpeedFactor |-> IF actionsTaken # 0
                                      THEN <<speedFactorAccum, actionsTaken * FatigueUnit>>
                                      ELSE <<1, 1>>,
                   resolved       |-> actionsTaken,
                   totalHarm      |-> totalHarm ]
    /\ pc' = "done"
    /\ UNCHANGED <<conditions, fatigue, userProfile, presentationPolicy, t0, wallClockSec,
                   actionsTaken, accuracyAccum, speedFactorAccum, totalHarm, target>>
    /\ UNCHANGED mcVars

Next ==
    \/ LoopExit
    \/ SelectTarget
    \/ PreemptTick
    \/ WorkTick
    \/ Resolve
    \/ IdleTick
    \/ Return

Spec == Init /\ [][Next]_vars

----------------------------------------------------------------------------
(* runMonteCarloPolicies and summarize *)

\* policies = ["singleHighest", "showAll"]
MCPolicies == << "singleHighest", "showAll" >>

\* operator = new UserProfile({ name: "op", baseTaskTimeSec: 2.5,
\* taskTimeJitterSec: 2, taskStrategy: "highestSeverity" })
DefaultOperator == Profile(5, 4, "highestSeverity", 8)

\* The records simulateTrialForUser returns to the runner, drawn from three
\* records whose metrics rank differently and tie: finalFatigue in
\* 1/FatigueUnit, avgAccuracy in 1/(10*FatigueUnit), avgSpeedFactor in
\* 1/FatigueUnit
TrialResults ==
    { [ user |-> "op", totalTimeSec |-> 2, finalFatigue |-> 50, avgAccuracy |-> 53550,
        avgSpeedFactor |-> 5950, resolved |-> 1, totalHarm |-> 50 ],
      [ user |-> "op", totalTimeSec |-> 5, finalFatigue |-> 18, avgAccuracy |-> 53865,
        avgSpeedFactor |-> 5985, resolved |-> 2, totalHarm |-> 50 ],
      [ user |-> "op", totalTimeSec |-> 3, finalFatigue |-> 75, avgAccuracy |-> 53325,
        avgSpeedFactor |-> 5925, resolved |-> 1, totalHarm |-> 75 ] }

\* arr.reduce((s, r) => s + r[k], 0)
RECURSIVE SumOf(_)
SumOf(vals) ==
    IF vals = << >> THEN 0 ELSE Head(vals) + SumOf(Tail(vals))

\* mean(k): the sum over arr.length, as the pair << sum, length >>
mean(vals) == << SumOf(vals), Len(vals) >>

\* Insertion of x into an ascending sequence, after the elements equal to it
RECURSIVE Insert(_, _)
Insert(x, sortedVals) ==
    IF sortedVals = << >> THEN << x >>
    ELSE IF x - Head(sortedVals) < 0 THEN << x >> \o sortedVals
    ELSE << Head(sortedVals) >> \o Insert(x, Tail(sortedVals))

\* vals.sort((a,b) => a - b): ascending, stable
RECURSIVE SortAsc(_)
SortAsc(vals) ==
    IF vals = << >> THEN << >>
    ELSE Insert(vals[Len(vals)], SortAsc(SubSeq(vals, 1, Len(vals) - 1)))

\* arr.map(r => r[k])
valuesOf(arr, k) == [ i \in 1..Len(arr) |-> arr[i][k] ]

\* sorted(k) = arr.map(r => r[k]).sort((a,b) => a - b)
sorted(arr, k) == SortAsc(valuesOf(arr, k))

\* Faulty variant of pct: the index taken from q * length, not q * (length - 1)
pctOfLength(vals, q) ==
    LET index == (q * Len(vals)) \div 10
    IN IF index + 1 \in DOMAIN vals THEN vals[index + 1] ELSE Null

\* pct(vals, q) = vals[Math.floor(q * (vals.length - 1))], q in tenths; the
\* array is 0-based and an index outside it gives undefined (Null)
pct(vals, q) ==
    LET index == (q * (Len(vals) - 1)) \div 10
    IN IF index + 1 \in DOMAIN vals THEN vals[index + 1] ELSE Null

summarize(arr) ==
    [ count        |-> Len(arr),
      meanTime     |-> mean(valuesOf(arr, "totalTimeSec")),
      p50Time      |-> pct(sorted(arr, "totalTimeSec"), 5),
      p90Time      |-> pct(sorted(arr, "totalTimeSec"), 9),
      meanFatigue  |-> mean(valuesOf(arr, "finalFatigue")),
      p50Fatigue   |-> pct(sorted(arr, "finalFatigue"), 5),
      p90Fatigue   |-> pct(sorted(arr, "finalFatigue"), 9),
      meanAccuracy |-> mean(valuesOf(arr, "avgAccuracy")),
      p50Acc       |-> pct(sorted(arr, "avgAccuracy"), 5),
      p90Acc       |-> pct(sorted(arr, "avgAccuracy"), 9),
      meanHarm     |-> mean(valuesOf(arr, "totalHarm")),
      p50Harm      |-> pct(sorted(arr, "totalHarm"), 5),
      p90Harm      |-> pct(sorted(arr, "totalHarm"), 9),
      samples      |-> arr ]

\* The trial variables, which a Monte Carlo run leaves alone
trialVars == <<conditions, fatigue, userProfile, presentationPolicy, t0, wallClockSec,
               actionsTaken, accuracyAccum, speedFactorAccum, totalHarm, target, result>>

InitMC ==
    /\ conditions = << >>
    /\ fatigue = 0
    /\ userProfile = DefaultOperator
    /\ presentationPolicy = MCPolicies[1]
    /\ t0 \in T0Set
    /\ wallClockSec = 0
    /\ actionsTaken = 0
    /\ accuracyAccum = 0
    /\ speedFactorAccum = 0
    /\ totalHarm = 0
    /\ target = NoTarget
    /\ result = Null
    /\ pc = "mc"
    /\ N \in 0..MaxN
    /\ samples = << >>
    /\ out = << >>

\* samples.push(simulateTrialForUser(operator, {...})) while i < N
MCRunTrial ==
    /\ pc = "mc"
    /\ Len(out) < Len(MCPolicies)
    /\ Len(samples) < N
    /\ \E r \in TrialResults : samples' = Append(samples, r)
    /\ UNCHANGED <<N, out, pc>>
    /\ UNCHANGED trialVars

\* out[pol] = { summary: summarize(samples), samples }, and the next policy
MCSummarize ==
    /\ pc = "mc"
    /\ Len(out) < Len(MCPolicies)
    /\ Len(samples) = N
    /\ out' = Append(out, [ pol     |-> MCPolicies[Len(out) + 1],
                            summary |-> summarize(samples),
                            samples |-> samples ])
    /\ samples' = << >>
    /\ UNCHANGED <<N, pc>>
    /\ UNCHANGED trialVars

\* return out
MCReturn ==
    /\ pc = "mc"
    /\ Len(out) = Len(MCPolicies)
    /\ pc' = "mcDone"
    /\ UNCHANGED mcVars
    /\ UNCHANGED trialVars

NextMC ==
    \/ MCRunTrial
    \/ MCSummarize
    \/ MCReturn

SpecMC == InitMC /\ [][NextMC]_vars

----------------------------------------------------------------------------
(* Properties *)

Conds == DOMAIN conditions
Tick == wallClockSec' = wallClockSec + 1

RECURSIVE SumSquares(_)
SumSquares(S) ==
    IF S = {} THEN 0
    ELSE LET i == CHOOSE x \in S : TRUE
         IN conditions[i].severity * conditions[i].severity + SumSquares(S \ {i})

\* C1: trial.fatigue is within [0,1] in every state of a trial and no step
\* lowers it (fatigue is kept in 1/FatigueUnit, so 1 is FatigueUnit).
C1_FatigueMonotone ==
    [][ /\ 0 <= fatigue /\ fatigue <= FatigueUnit
        /\ fatigue <= fatigue' /\ fatigue' <= FatigueUnit ]_vars

\* C1 witness: fatigue has reached the clamp while the trial is still running
C1_Witness == fatigue = FatigueUnit /\ pc = "work" /\ wallClockSec > T_SECONDS

\* C2: a tick taken while no condition is Shown-and-unresolved leaves fatigue unchanged.
C2_IdleZeroAccrual ==
    [][ (Tick /\ Active(conditions) = {}) => fatigue' = fatigue ]_vars

\* C2 witness: an idle second has passed with nothing active, after fatigue had built up
C2_Witness ==
    /\ pc = "loop" /\ target = NoTarget /\ wallClockSec > 0
    /\ fatigue > 0
    /\ \E i \in Conds : conditions[i].resolved /\ conditions[i].shown

\* C3: each second adds the sum over the Shown-and-unresolved conditions of
\* severity^2 / (25*240) and the result is clamped to at most 1.  With f the
\* program's fatigue (fatigue / FatigueUnit): f' = min(1, f + sum / 6000),
\* stated after multiplying by 6000 * FatigueUnit.
C3_FatigueIncrement ==
    [][ Tick =>
          LET sum == SumSquares({ i \in Conds : conditions[i].shown /\ ~conditions[i].resolved })
          IN fatigue' * (25 * 240)
               = Min((25 * 240) * FatigueUnit, fatigue * (25 * 240) + FatigueUnit * sum) ]_vars

\* C3 witness: a second of work has been done while a condition other than the
\* target was Shown and unresolved, and both have been counted
C3_Witness ==
    /\ pc = "work" /\ wallClockSec > 0
    /\ \E i \in Active(conditions) :
          /\ i # target /\ target \in Active(conditions)
          /\ conditions[i].startShownTime < t0 + wallClockSec * 1000
          /\ conditions[target].workRemainingSec < conditions[target].workInitialSec
          /\ fatigue >= conditions[i].severity * conditions[i].severity
                        + conditions[target].severity * conditions[target].severity

\* C4: a resolved condition stays resolved and its shown flag is not touched
\* again; a shown timestamp and a resolved timestamp, once written, keep their value.
C4_StateMonotone ==
    [][ \A i \in Conds :
          /\ conditions[i].resolved =>
                conditions'[i].resolved /\ conditions'[i].shown = conditions[i].shown
          /\ conditions[i].startShownTime # Null =>
                conditions'[i].startShownTime = conditions[i].startShownTime
          /\ conditions[i].endResolvedTime # Null =>
                conditions'[i].endResolvedTime = conditions[i].endResolvedTime ]_vars

\* C4 witness: under severityEscalation a condition was shown, hidden again and
\* shown once more at a later second, while another one is already resolved
C4_Witness ==
    /\ presentationPolicy = "severityEscalation"
    /\ \E i, j \in Conds :
          /\ conditions[j].resolved
          /\ conditions[i].shown /\ ~conditions[i].resolved
          /\ conditions[i].startShownTime < conditions[j].startShownTime
          /\ conditions[j].endResolvedTime < t0 + wallClockSec * 1000

\* C5: under singleHighest and its alias at most one condition is Shown and unresolved.
C5_SingleHighestExclusive ==
    presentationPolicy \in {"singleHighest", "singleHighestNonInterrupting"}
        => Cardinality(Active(conditions)) <= 1

\* C5 witness: two conditions have arrived and are unresolved, one of them is Shown
C5_Witness ==
    /\ presentationPolicy = "singleHighestNonInterrupting"
    /\ \E i, j \in Conds :
          /\ i # j /\ i \in Active(conditions)
          /\ ~conditions[j].resolved /\ ~conditions[j].shown
          /\ conditions[j].start_time <= wallClockSec
          /\ conditions[j].severity > conditions[i].severity
          /\ pc = "work"

\* C6: under severityEscalation, in a step that does not resolve the Shown
\* condition c, c is hidden only if a condition of strictly greater severity is
\* revealed, and any condition that is revealed has strictly greater severity
\* than c and takes its place.
C6_EscalationSwitchRule ==
    [][ presentationPolicy = "severityEscalation" =>
          \A c \in Active(conditions) :
             ~conditions'[c].resolved =>
                /\ ~conditions'[c].shown =>
                      \E d \in Conds :
                         /\ ~conditions[d].shown /\ conditions'[d].shown
                         /\ conditions[d].severity > conditions[c].severity
                /\ \A d \in Conds :
                      (~conditions[d].shown /\ conditions'[d].shown) =>
                         /\ conditions[d].severity > conditions[c].severity
                         /\ ~conditions'[c].shown ]_vars

\* C6 witness: a condition of the same severity as the Shown one has arrived
\* later and has been left hidden
C6_Witness ==
    /\ presentationPolicy = "severityEscalation"
    /\ \E c \in Active(conditions), d \in Conds :
          /\ d # c
          /\ conditions[d].severity = conditions[c].severity
          /\ conditions[c].start_time < conditions[d].start_time
          /\ conditions[d].start_time <= wallClockSec
          /\ ~conditions[d].shown /\ ~conditions[d].resolved
          /\ conditions[d].startShownTime = Null

\* The latest arrival second of the trial
RECURSIVE MaxStartTime(_)
MaxStartTime(S) ==
    IF S = {} THEN 0
    ELSE LET i == CHOOSE x \in S : TRUE
         IN Max(conditions[i].start_time, MaxStartTime(S \ {i}))

\* latest arrival + n * (ceil(10 * (baseTaskTimeSec + taskTimeJitterSec)) + 2) seconds;
\* the profile's times are in half seconds, so 10 * t seconds is 5 * t
WorkloadBound ==
    MaxStartTime(Conds)
    + Len(conditions)
      * (5 * (userProfile.baseTaskTimeSec + userProfile.taskTimeJitterSec) + 2)

\* C7 as stated: every trial with baseTaskTimeSec >= 0.5 and severities in
\* [1,5] ends with all conditions resolved within the 3600-second cap.
C7_TerminationAsStated ==
    ( /\ pc = "done"
      /\ userProfile.baseTaskTimeSec >= 1
      /\ \A i \in Conds : conditions[i].severity \in 1..SEV_MAX )
    => allResolved(conditions) /\ result.totalTimeSec <= 3600

\* C7 amended: ... provided the latest arrival second plus, per condition,
\* ceil(10 * (baseTaskTimeSec + taskTimeJitterSec)) + 2 seconds fits in the cap.
C7_TerminationWithinWorkload ==
    ( /\ pc = "done"
      /\ userProfile.baseTaskTimeSec >= 1
      /\ \A i \in Conds : conditions[i].severity \in 1..SEV_MAX
      /\ WorkloadBound <= 3600 )
    => allResolved(conditions) /\ result.totalTimeSec <= 3600

\* C7 witness: a trial whose second task was opened at fatigue 1, ten times its
\* nominal length, has ended with everything resolved
C7_Witness ==
    /\ pc = "done" /\ WorkloadBound <= 3600
    /\ result.finalFatigue = FatigueUnit
    /\ result.resolved = 2
    /\ result.totalTimeSec > 1800

\* C8: in a trial that the cap did not stop, under showAll, singleHighest and
\* severityEscalation, every condition has been Shown and has been Resolved.
C8_NoAlarmForgotten ==
    ( /\ pc = "done"
      /\ ~overCap(result.totalTimeSec)
      /\ presentationPolicy \in MainPolicies )
    => \A i \in Conds :
          /\ conditions[i].resolved
          /\ conditions[i].startShownTime # Null
          /\ conditions[i].endResolvedTime # Null

\* C8 witness: a trial under severityEscalation has ended in which a condition
\* was shown first, gave way to one shown later (re-hidden and preempted) and
\* was resolved after it
C8_Witness ==
    /\ pc = "done" /\ ~overCap(result.totalTimeSec)
    /\ presentationPolicy = "severityEscalation"
    /\ userProfile.taskStrategy = "preemptOnHigherSeverity"
    /\ \E i, j \in Conds :
          /\ conditions[i].startShownTime < conditions[j].startShownTime
          /\ conditions[j].endResolvedTime < conditions[i].endResolvedTime
          /\ conditions[j].startShownTime < conditions[i].endResolvedTime

\* C9 as stated: the totalTimeSec of every returned result is at most 3600.
C9_ClockWithinCap ==
    pc = "done" => result.totalTimeSec <= 3600

\* C10: the resolved count equals the number of conditions whose resolved flag
\* is set, at every moment and in the returned record, and the record reports
\* fewer resolved than conditions only if the cap stopped the trial.
C10_ResolvedCount ==
    /\ actionsTaken = Cardinality({ i \in Conds : conditions[i].resolved })
    /\ pc = "done" =>
          /\ result.resolved = Cardinality({ i \in Conds : conditions[i].resolved })
          /\ result.resolved < Len(conditions) => overCap(result.totalTimeSec)

\* C10 witness: a trial stopped by the cap has returned its record, with fewer
\* resolved than conditions
C10_Witness ==
    /\ pc = "done"
    /\ overCap(result.totalTimeSec)
    /\ result.resolved < Len(conditions)
    /\ result.finalFatigue = FatigueUnit

\* The simulated second of a timestamp t0 + sec * 1000
SecOf(stamp) == (stamp - t0) \div 1000

\* C11: every resolved condition has a shown timestamp and a resolved
\* timestamp, and resolved second >= first-shown second >= arrival second.
C11_ResolvedTimestamps ==
    \A i \in Conds :
        conditions[i].resolved =>
            /\ conditions[i].startShownTime # Null
            /\ conditions[i].endResolvedTime # Null
            /\ SecOf(conditions[i].endResolvedTime) >= SecOf(conditions[i].startShownTime)
            /\ SecOf(conditions[i].startShownTime) >= conditions[i].start_time

\* C11 witness: a condition that waited hidden after its arrival, was shown
\* later and resolved later still
C11_Witness ==
    \E i \in Conds :
        /\ conditions[i].resolved
        /\ conditions[i].start_time < SecOf(conditions[i].startShownTime)
        /\ SecOf(conditions[i].startShownTime) < SecOf(conditions[i].endResolvedTime)

\* C12: a condition is Shown at clock t only if its arrival second is <= t,
\* and a reveal writes the clock of the reveal into the shown timestamp only
\* if there is none yet: a re-show after a re-hide leaves it as it was.
C12_RevealNotBeforeArrival ==
    [][ \A i \in Conds :
          /\ conditions'[i].shown => conditions'[i].start_time <= wallClockSec'
          /\ (~conditions[i].shown /\ conditions'[i].shown) =>
                conditions'[i].startShownTime =
                    IF conditions[i].startShownTime = Null
                    THEN t0 + wallClockSec' * 1000
                    ELSE conditions[i].startShownTime ]_vars

\* C12 witness: under severityEscalation the target, shown first, is Shown
\* again after the condition that displaced it (revealed at its arrival
\* second) was resolved
C12_Witness ==
    /\ presentationPolicy = "severityEscalation"
    /\ pc = "work"
    /\ \E j \in Conds :
          /\ j # target
          /\ conditions[target].shown /\ ~conditions[target].resolved
          /\ conditions[j].resolved
          /\ conditions[j].start_time > conditions[target].start_time
          /\ SecOf(conditions[j].startShownTime) = conditions[j].start_time
          /\ conditions[target].startShownTime < conditions[j].startShownTime

\* C13: a condition goes from Shown to Hidden only under severityEscalation
\* and only while unresolved, and the step leaves its shown timestamp in place.
C13_RehideOnlyByEscalation ==
    [][ \A i \in Conds :
          (conditions[i].shown /\ ~conditions'[i].shown) =>
             /\ presentationPolicy = "severityEscalation"
             /\ ~conditions[i].resolved /\ ~conditions'[i].resolved
             /\ conditions[i].startShownTime # Null
             /\ conditions'[i].startShownTime = conditions[i].startShownTime ]_vars

\* C13 witness: a condition that was Shown is Hidden and unresolved, and the
\* condition Shown in its place is more severe
C13_Witness ==
    /\ presentationPolicy = "severityEscalation"
    /\ \E i \in Conds, j \in Active(conditions) :
          /\ ~conditions[i].shown /\ ~conditions[i].resolved
          /\ conditions[i].startShownTime # Null
          /\ conditions[i].startShownTime < conditions[j].startShownTime
          /\ conditions[j].severity > conditions[i].severity

\* C14 as stated: a step that resolves a condition finds it Shown.
C14_ResolvedOnlyFromShown ==
    [][ \A i \in Conds :
          (~conditions[i].resolved /\ conditions'[i].resolved) => conditions[i].shown ]_vars

\* The clocks at which the trial applies a policy to the current conditions:
\* the current second (loop head) and the next one (work and idle ticks)
PolicyClocks == { wallClockSec, wallClockSec + 1 }

\* C15: after showAll is applied at clock t every arrived, unresolved
\* condition is Shown, and a second application at the same clock changes
\* nothing; in a trial under showAll, once the policy has been applied, every
\* arrived unresolved condition is Shown.
C15_ShowAllIdempotent ==
    /\ \A t \in PolicyClocks :
          LET once == presentAccordingToPolicy(conditions, t, "showAll", t0)
          IN /\ \A i \in Conds :
                   (once[i].start_time <= t /\ ~once[i].resolved) => once[i].shown
             /\ presentAccordingToPolicy(once, t, "showAll", t0) = once
    /\ (presentationPolicy = "showAll" /\ pc \in {"work", "resolve", "idle"}) =>
          \A i \in Conds :
             (conditions[i].start_time <= wallClockSec /\ ~conditions[i].resolved)
                => conditions[i].shown

\* C15 witness: under showAll two unresolved conditions are Shown, one since
\* its arrival at an earlier second than the other, which arrived this second
C15_Witness ==
    /\ presentationPolicy = "showAll"
    /\ pc = "work"
    /\ \E i, j \in Active(conditions) :
          /\ conditions[i].startShownTime < conditions[j].startShownTime
          /\ SecOf(conditions[j].startShownTime) = wallClockSec
          /\ conditions[j].start_time = wallClockSec
          /\ SecOf(conditions[i].startShownTime) = conditions[i].start_time

\* The arrived, unresolved, not-Shown conditions at clock t
Outstanding(t) ==
    { i \in Conds : /\ ~conditions[i].resolved
                    /\ conditions[i].start_time <= t
                    /\ ~conditions[i].shown }

\* C16: singleHighest changes nothing when a condition is Shown and
\* unresolved or when nothing is outstanding; otherwise it reveals exactly one
\* outstanding condition, of the highest severity and, among those, of the
\* earliest arrival.
C16_SingleHighestChoice ==
    \A t \in PolicyClocks :
        LET after == presentAccordingToPolicy(conditions, t, "singleHighest", t0)
        IN IF Active(conditions) # {} \/ Outstanding(t) = {}
           THEN after = conditions
           ELSE \E k \in Outstanding(t) :
                   /\ after[k].shown
                   /\ \A j \in Conds \ {k} : after[j] = conditions[j]
                   /\ \A j \in Outstanding(t) :
                         \/ conditions[k].severity > conditions[j].severity
                         \/ /\ conditions[k].severity = conditions[j].severity
                            /\ conditions[k].start_time <= conditions[j].start_time

\* C16 witness: under singleHighest, after the first condition was resolved,
\* of two outstanding conditions of equal severity the one that arrived
\* earlier (at the higher index) has been revealed and the other has not
C16_Witness ==
    /\ presentationPolicy = "singleHighest"
    /\ pc = "work"
    /\ \E i, k \in Conds :
          /\ i < k /\ k = target
          /\ conditions[k].shown /\ ~conditions[k].resolved
          /\ ~conditions[i].shown /\ ~conditions[i].resolved
          /\ conditions[i].startShownTime = Null
          /\ conditions[i].severity = conditions[k].severity
          /\ conditions[k].start_time < conditions[i].start_time
          /\ conditions[i].start_time <= SecOf(conditions[k].startShownTime)

\* C17: after severityEscalation is applied, if an arrived unresolved
\* condition exists then a condition is Shown and unresolved whose severity is
\* at least that of every arrived unresolved condition.
C17_EscalationShowsHighest ==
    presentationPolicy = "severityEscalation" =>
        \A t \in PolicyClocks :
            LET after == presentAccordingToPolicy(conditions, t, presentationPolicy, t0)
                arrived == { i \in Conds : ~after[i].resolved /\ after[i].start_time <= t }
            IN arrived # {} =>
                  \E s \in Active(after) :
                      \A i \in arrived : after[s].severity >= after[i].severity

\* C17 witness: under severityEscalation the operator's target has been
\* re-hidden and a more severe condition that arrived later is the Shown one
C17_Witness ==
    /\ presentationPolicy = "severityEscalation"
    /\ pc = "work"
    /\ ~conditions[target].shown /\ ~conditions[target].resolved
    /\ \E s \in Active(conditions) :
          /\ conditions[s].severity > conditions[target].severity
          /\ conditions[s].start_time > conditions[target].start_time
          /\ \A i \in Conds : conditions[s].severity >= conditions[i].severity

\* C18: presentAccordingToPolicy with a policy name no branch recognizes
\* (names differ from the known ones also by case only) yields the same
\* conditions as with "singleHighest", for the conditions of every state of
\* every trial and the clocks the policy is applied at.
C18_FallbackIsSingleHighest ==
    \A t \in PolicyClocks, name \in {"otherPolicy", "ShowAll", ""} :
        presentAccordingToPolicy(conditions, t, name, t0)
            = presentAccordingToPolicy(conditions, t, "singleHighest", t0)

\* C18 witness: a trial run under an unrecognized policy name has ended with
\* both conditions resolved, the less severe one shown only after the more
\* severe one was resolved although it had arrived before
C18_Witness ==
    /\ presentationPolicy = "otherPolicy"
    /\ pc = "done"
    /\ \E i, j \in Conds :
          /\ conditions[i].resolved /\ conditions[j].resolved
          /\ conditions[j].severity < conditions[i].severity
          /\ conditions[j].start_time < SecOf(conditions[j].startShownTime)
          /\ conditions[j].startShownTime = conditions[i].endResolvedTime

\* C19: with highestSeverity, pickNextAlarm returns null exactly when no
\* condition is Shown and unresolved; otherwise it returns a Shown, unresolved
\* condition of maximal severity and, among those, of the earliest shown timestamp.
C19_HighestSeverityPick ==
    LET picked == pickNextAlarm(conditions, "highestSeverity")
    IN /\ (picked = NoTarget) <=> (Active(conditions) = {})
       /\ picked # NoTarget =>
             /\ picked \in Active(conditions)
             /\ \A j \in Active(conditions) :
                   \/ conditions[picked].severity > conditions[j].severity
                   \/ /\ conditions[picked].severity = conditions[j].severity
                      /\ conditions[picked].startShownTime <= conditions[j].startShownTime

\* C19 witness: a highestSeverity operator works on the condition shown
\* earlier (at the higher index) of two Shown conditions of equal severity
C19_Witness ==
    /\ userProfile.taskStrategy = "highestSeverity"
    /\ pc = "work"
    /\ target \in Active(conditions)
    /\ \E j \in Active(conditions) :
          /\ j < target
          /\ conditions[j].severity = conditions[target].severity
          /\ conditions[target].startShownTime < conditions[j].startShownTime
          /\ conditions[j].workInitialSec = Null
          /\ conditions[target].workRemainingSec = conditions[target].workInitialSec

\* C20: with earliestShown, pickNextAlarm returns a Shown, unresolved
\* condition whose shown timestamp is the earliest among the Shown, unresolved
\* conditions, whatever the severities.
C20_EarliestShownPick ==
    LET picked == pickNextAlarm(conditions, "earliestShown")
    IN Active(conditions) # {} =>
          /\ picked \in Active(conditions)
          /\ \A j \in Active(conditions) :
                conditions[picked].startShownTime <= conditions[j].startShownTime

\* C20 witness: an earliestShown operator works on a condition shown at
\* second 0 while a more severe condition at a lower index, shown later, waits
C20_Witness ==
    /\ userProfile.taskStrategy = "earliestShown"
    /\ pc = "work"
    /\ target \in Active(conditions)
    /\ SecOf(conditions[target].startShownTime) = 0
    /\ wallClockSec > 0
    /\ conditions[target].workRemainingSec = conditions[target].workInitialSec
    /\ \E j \in Active(conditions) :
          /\ j < target
          /\ conditions[j].severity > conditions[target].severity
          /\ conditions[j].startShownTime > conditions[target].startShownTime
          /\ conditions[j].workInitialSec = Null

\* A pass of the work loop: one second on the clock with a target
WorkLoopPass == pc = "work" /\ Tick

\* C21: in a pass of the work loop the target changes only under
\* preemptOnHigherSeverity, and only if, after the policy was re-applied, a
\* different Shown-and-unresolved condition is strictly more severe than the
\* target and the target's completed fraction 1 - remaining/initial is
\* strictly below preemptThreshold (in tenths); and whenever both hold the
\* target becomes a Shown-and-unresolved condition of the highest severity.
C21_PreemptionRule ==
    [][ WorkLoopPass =>
          LET higher == { d \in Active(conditions') \ {target} :
                            conditions[d].severity > conditions[target].severity }
              initial == conditions[target].workInitialSec
              remaining == conditions[target].workRemainingSec
              below == 10 * (initial - remaining) < userProfile.preemptThreshold * initial
              triggered == /\ userProfile.taskStrategy = "preemptOnHigherSeverity"
                           /\ higher # {}
                           /\ below
          IN /\ target' # target => triggered
             /\ triggered =>
                   /\ target' # target
                   /\ target' \in Active(conditions')
                   /\ \A d \in Active(conditions') :
                         conditions[target'].severity >= conditions[d].severity ]_vars

\* C21 witness: the operator has switched, after one of two seconds of work
\* (fraction 0.5 < 0.8), to a more severe condition whose session is untouched
C21_Witness ==
    /\ userProfile.taskStrategy = "preemptOnHigherSeverity"
    /\ userProfile.preemptThreshold = 8
    /\ pc = "work"
    /\ conditions[target].workRemainingSec = conditions[target].workInitialSec
    /\ \E i \in Conds \ {target} :
          /\ ~conditions[i].resolved
          /\ conditions[i].workInitialSec = 2 /\ conditions[i].workRemainingSec = 1
          /\ conditions[i].severity < conditions[target].severity

\* The conditions whose work-tracking fields are set
OpenSessions == { i \in Conds : conditions[i].workRemainingSec # Null }

ScenarioC ==
    /\ presentationPolicy = "showAll"
    /\ userProfile = Profile(20, 0, "preemptOnHigherSeverity", 8)
    /\ Len(conditions) = 2
    /\ conditions[1].start_time = 0 /\ conditions[1].severity = 2
    /\ conditions[2].start_time = 1 /\ conditions[2].severity = 5

\* The severity-2 condition is the target again, at the second the severity-5
\* condition was resolved
ScenarioCResumed ==
    /\ pc = "work" /\ target = 1
    /\ conditions[2].resolved
    /\ conditions[2].endResolvedTime = t0 + wallClockSec * 1000

\* C23 as stated: in scenario C the session of 10 s opens at second 0; at
\* second 1 the target is the severity-5 condition and the severity-2
\* condition has 9 of its 10 seconds remaining (fraction 0.1), and it later
\* resumes with those 9 seconds.
C23_ScenarioCAsStated ==
    ScenarioC =>
        /\ (pc = "work" /\ wallClockSec = 0) =>
              /\ target = 1
              /\ conditions[1].workInitialSec = 10 /\ conditions[1].workRemainingSec = 10
        /\ (pc = "work" /\ wallClockSec = 1) =>
              /\ target = 2
              /\ conditions[1].workInitialSec = 10 /\ conditions[1].workRemainingSec = 9
        /\ ScenarioCResumed =>
              conditions[1].workInitialSec = 10 /\ conditions[1].workRemainingSec = 9

\* C23 amended: ... at second 1 the target is the severity-5 condition and
\* the severity-2 condition still has all 10 of its 10 seconds remaining
\* (fraction 0), and it later resumes with those retained 10 seconds, no task
\* time being drawn again, and is resolved 10 seconds after it resumed.
C23_ScenarioCRetained ==
    ScenarioC =>
        /\ (pc = "work" /\ wallClockSec = 0) =>
              /\ target = 1
              /\ conditions[1].workInitialSec = 10 /\ conditions[1].workRemainingSec = 10
        /\ (pc = "work" /\ wallClockSec = 1) =>
              /\ target = 2
              /\ conditions[1].workInitialSec = 10 /\ conditions[1].workRemainingSec = 10
        /\ ScenarioCResumed =>
              conditions[1].workInitialSec = 10 /\ conditions[1].workRemainingSec = 10
        /\ conditions[1].resolved =>
              /\ conditions[2].resolved
              /\ SecOf(conditions[1].endResolvedTime) = SecOf(conditions[2].endResolvedTime) + 10

\* C23 witness: scenario C has ended, the severity-5 condition shown at
\* second 1 and resolved first, the severity-2 condition resolved after it
C23_Witness ==
    /\ ScenarioC
    /\ pc = "done"
    /\ SecOf(conditions[2].startShownTime) = 1
    /\ conditions[2].endResolvedTime < conditions[1].endResolvedTime
    /\ result.resolved = 2

\* Scenario A: a task of 2 s without jitter, one condition of severity 5
\* arriving at second 0, showAll, highestSeverity
ScenarioA ==
    /\ presentationPolicy = "showAll"
    /\ userProfile = Profile(4, 0, "highestSeverity", 8)
    /\ Len(conditions) = 1
    /\ conditions[1].start_time = 0 /\ conditions[1].severity = 5

\* C24: in scenario A the condition is shown at second 0, its session opens
\* there with 2 seconds, it is resolved at second 2, the trial returns
\* totalTimeSec = 2 and resolved = 1, and calculateScore() is 125/2.
C24_ScenarioA ==
    ScenarioA =>
        /\ conditions[1].shown => conditions[1].startShownTime = t0
        /\ (pc = "work" /\ wallClockSec = 0) =>
              /\ conditions[1].shown
              /\ conditions[1].workInitialSec = 2 /\ conditions[1].workRemainingSec = 2
        /\ conditions[1].resolved => conditions[1].endResolvedTime = t0 + 2 * 1000
        /\ pc = "done" =>
              /\ conditions[1].resolved
              /\ result.totalTimeSec = 2
              /\ result.resolved = 1
              /\ calculateScore(conditions)[1] * 2 = 125 * calculateScore(conditions)[2]

\* C24 witness: scenario A has returned its record
C24_Witness ==
    /\ ScenarioA
    /\ pc = "done"
    /\ result.totalTimeSec = 2
    /\ conditions[1].resolved /\ conditions[1].shown

\* Scenario B: severities [5,1], both arriving at second 0, showAll, highestSeverity
ScenarioB ==
    /\ presentationPolicy = "showAll"
    /\ userProfile.taskStrategy = "highestSeverity"
    /\ Len(conditions) = 2
    /\ conditions[1].start_time = 0 /\ conditions[1].severity = 5
    /\ conditions[2].start_time = 0 /\ conditions[2].severity = 1

\* C25: under highestSeverity and earliestShown at most one condition has
\* its work fields set, and while the trial is at work it is the target: from
\* the opening of a session to the resolution of its condition no other
\* session exists.  In scenario B the severity-1 session does not exist until
\* the severity-5 condition is resolved.
C25_NoInterleaving ==
    /\ userProfile.taskStrategy \in {"highestSeverity", "earliestShown"} =>
          /\ Cardinality(OpenSessions) <= 1
          /\ pc \in {"work", "resolve"} => OpenSessions = {target}
    /\ ScenarioB =>
          /\ conditions[2].workInitialSec # Null => conditions[1].resolved
          /\ conditions[2].resolved =>
                /\ conditions[1].resolved
                /\ conditions[1].endResolvedTime < conditions[2].endResolvedTime

\* C25 witness: a highestSeverity operator is at work on a condition while a
\* more severe one, shown later, waits without a session
C25_Witness ==
    /\ userProfile.taskStrategy = "highestSeverity"
    /\ pc = "work"
    /\ conditions[target].workRemainingSec < conditions[target].workInitialSec
    /\ \E j \in Active(conditions) :
          /\ conditions[j].severity > conditions[target].severity
          /\ conditions[j].startShownTime > conditions[target].startShownTime
          /\ conditions[j].workInitialSec = Null

\* C26 as stated: at most one condition has non-null work-tracking fields.
C26_OneOpenSession ==
    Cardinality(OpenSessions) <= 1

\* C26 amended: at most one session is worked at a time, that of the target;
\* any other condition with non-null work-tracking fields is a condition a
\* preemptOnHigherSeverity operator was preempted on: unresolved, with
\* 0 < remaining <= initial, waiting to be resumed.
C26_OneSessionWorked ==
    /\ pc \in {"work", "resolve"} => target \in OpenSessions
    /\ userProfile.taskStrategy # "preemptOnHigherSeverity" => OpenSessions \subseteq {target}
    /\ \A i \in OpenSessions \ {target} :
          /\ userProfile.taskStrategy = "preemptOnHigherSeverity"
          /\ ~conditions[i].resolved
          /\ 0 < conditions[i].workRemainingSec
          /\ conditions[i].workRemainingSec <= conditions[i].workInitialSec

\* C26 witness: the operator works on one condition while a preempted one,
\* partly done, keeps its fields
C26_Witness ==
    /\ pc = "work"
    /\ Cardinality(OpenSessions) = 2
    /\ conditions[target].workRemainingSec < conditions[target].workInitialSec
    /\ \E i \in OpenSessions \ {target} :
          conditions[i].workRemainingSec < conditions[i].workInitialSec

\* C27: a step that opens a session (the initial pick or a preemption
\* switch) sets remaining = initial = k, the least integer k >= 1 with
\* k >= (baseTaskTimeSec + jitter) / max(0.1, 1 - fatigue) for the jitter drawn
\* and the fatigue at that moment, that is ceil(max(0.5, ...)); and
\* 1 <= k <= ceil(10 * (baseTaskTimeSec + taskTimeJitterSec)).  Times of the
\* profile are in half seconds and fatigue in 1/FatigueUnit, so the quotient
\* is nominal * FatigueUnit / (2 * sf).
C27_SessionLength ==
    [][ \A i \in Conds :
          (conditions[i].workInitialSec = Null /\ conditions'[i].workInitialSec # Null) =>
             LET k == conditions'[i].workInitialSec
                 sf == Max(FatigueUnit \div 10, FatigueUnit - fatigue')
             IN /\ conditions'[i].workRemainingSec = k
                /\ i = target'
                /\ 1 <= k
                /\ k <= 5 * (userProfile.baseTaskTimeSec + userProfile.taskTimeJitterSec)
                /\ \E jitter \in JitterDraws(userProfile) :
                      LET nominal == userProfile.baseTaskTimeSec + jitter
                      IN /\ 2 * k * sf >= nominal * FatigueUnit
                         /\ k = 1 \/ 2 * (k - 1) * sf < nominal * FatigueUnit ]_vars

\* C27 witness: in scenario C the session opened by the preemption switch at
\* second 1, at fatigue 4/6000, has 11 seconds for a nominal task of 10
C27_Witness ==
    /\ ScenarioC
    /\ pc = "work" /\ wallClockSec = 1 /\ target = 2
    /\ fatigue > 0
    /\ conditions[2].workInitialSec = 11 /\ conditions[2].workRemainingSec = 11

\* Sum over the conditions S of (resolution second - arrival second) * severity^2
RECURSIVE HarmOf(_)
HarmOf(S) ==
    IF S = {} THEN 0
    ELSE LET i == CHOOSE x \in S : TRUE
         IN (SecOf(conditions[i].endResolvedTime) - conditions[i].start_time)
               * conditions[i].severity * conditions[i].severity
            + HarmOf(S \ {i})

\* C28: totalHarm is, in every state, the sum over the resolved conditions of
\* (resolution second - arrival second) * severity^2, so it changes only when
\* a condition is resolved; it is never negative and no step lowers it; a
\* resolved condition has null work-tracking fields; the returned record
\* carries the same sum.
C28_TotalHarm ==
    [][ /\ totalHarm = HarmOf({ i \in Conds : conditions[i].resolved })
        /\ totalHarm >= 0
        /\ totalHarm' >= totalHarm
        /\ totalHarm' # totalHarm =>
              \E i \in Conds : ~conditions[i].resolved /\ conditions'[i].resolved
        /\ \A i \in Conds :
              conditions'[i].resolved =>
                 /\ conditions'[i].workRemainingSec = Null
                 /\ conditions'[i].workInitialSec = Null
        /\ pc' = "done" =>
              result'.totalHarm = HarmOf({ i \in Conds : conditions[i].resolved }) ]_vars

\* C28 witness: a returned record whose harm has a term of a condition that
\* arrived after second 0 and was resolved later than it was shown
C28_Witness ==
    /\ pc = "done"
    /\ result.resolved = 2
    /\ result.totalHarm > 0
    /\ \E i \in Conds :
          /\ conditions[i].start_time > 0
          /\ SecOf(conditions[i].startShownTime) > conditions[i].start_time
          /\ result.totalHarm >
                (SecOf(conditions[i].endResolvedTime) - conditions[i].start_time)
                   * conditions[i].severity * conditions[i].severity

\* A step that resolves a condition
ResolutionEvent == \E i \in Conds : ~conditions[i].resolved /\ conditions'[i].resolved

\* C29: each resolution event adds 0.9 * (1 - f) and 1 - f, with f the
\* fatigue at that event, to the two sums and one to the count, and no other
\* step changes them; the record reports the sums divided by the count (a
\* mean is the pair << sum, count * unit >>), and exactly 0.9 and 1.0 when
\* nothing was resolved; a trial of zero conditions returns totalTimeSec 0
\* and fatigue 0.
C29_Averages ==
    [][ /\ IF ResolutionEvent
           THEN /\ accuracyAccum' = accuracyAccum + 9 * (FatigueUnit - fatigue)
                /\ speedFactorAccum' = speedFactorAccum + (FatigueUnit - fatigue)
                /\ actionsTaken' = actionsTaken + 1
           ELSE UNCHANGED <<accuracyAccum, speedFactorAccum, actionsTaken>>
        /\ pc' = "done" =>
              /\ IF actionsTaken = 0
                 THEN /\ result'.avgAccuracy = << 9, 10 >>
                      /\ result'.avgSpeedFactor = << 1, 1 >>
                 ELSE /\ result'.avgAccuracy = << accuracyAccum, actionsTaken * (10 * FatigueUnit) >>
                      /\ result'.avgSpeedFactor = << speedFactorAccum, actionsTaken * FatigueUnit >>
              /\ Len(conditions) = 0 =>
                    /\ result'.totalTimeSec = 0
                    /\ result'.finalFatigue = 0
                    /\ result'.resolved = 0 ]_vars

\* C29 witness: a record of two resolutions taken at fatigue above 0, the
\* mean accuracy below 0.9
C29_Witness ==
    /\ pc = "done"
    /\ result.resolved = 2
    /\ result.avgAccuracy[2] = 2 * (10 * FatigueUnit)
    /\ result.avgAccuracy[1] < 2 * (9 * FatigueUnit)
    /\ result.avgSpeedFactor[1] < 2 * FatigueUnit
    /\ result.finalFatigue > 0

\* The metrics summarized, with the names of their percentile fields
Metrics ==
    { << "totalTimeSec", "p50Time", "p90Time" >>,
      << "finalFatigue", "p50Fatigue", "p90Fatigue" >>,
      << "avgAccuracy", "p50Acc", "p90Acc" >>,
      << "totalHarm", "p50Harm", "p90Harm" >> }

\* v is the element at 0-based index idx of arr's values of metric k sorted
\* ascending: it is one of the values, at most idx values are smaller and
\* more than idx values are smaller or equal
IsOrderStatistic(v, arr, k, idx) ==
    /\ \E i \in 1..Len(arr) : arr[i][k] = v
    /\ Cardinality({ i \in 1..Len(arr) : arr[i][k] < v }) <= idx
    /\ Cardinality({ i \in 1..Len(arr) : arr[i][k] <= v }) > idx

\* C30: for every policy done, with n >= 1 samples, each reported percentile
\* q in {0.5, 0.9} of a metric is the element at index floor(q * (n - 1)) of
\* that metric's values in ascending order, hence one of the sample's values,
\* p50 <= p90, and summary.count = n = N.
C30_Percentiles ==
    \A e \in 1..Len(out) :
        LET arr == out[e].samples
            n == Len(arr)
        IN /\ out[e].summary.count = n
           /\ n = N
           /\ n >= 1 =>
                 \A m \in Metrics :
                    /\ IsOrderStatistic(out[e].summary[m[2]], arr, m[1], (5 * (n - 1)) \div 10)
                    /\ IsOrderStatistic(out[e].summary[m[3]], arr, m[1], (9 * (n - 1)) \div 10)
                    /\ out[e].summary[m[2]] <= out[e].summary[m[3]]

\* C30 witness: a run has returned in which, for a policy with four samples
\* not given in ascending order, the median time is below the 90th percentile
C30_Witness ==
    /\ pc = "mcDone"
    /\ N = 4
    /\ \E e \in 1..Len(out) :
          /\ out[e].summary.p50Time < out[e].summary.p90Time
          /\ out[e].samples[1].totalTimeSec > out[e].samples[4].totalTimeSec
          /\ out[e].summary.p50Harm = out[e].summary.p90Harm

\* Another value of Date.now() a run of the same trial can start at
OtherBases == { 1 }

\* The conditions of the same trial run from the base time b: every
\* timestamp moved by b - t0
Rebase(conds, b) ==
    [ i \in DOMAIN conds |->
        [ conds[i] EXCEPT
            !.startShownTime  = IF @ = Null THEN Null ELSE @ + (b - t0),
            !.endResolvedTime = IF @ = Null THEN Null ELSE @ + (b - t0) ] ]

\* The timestamps written by the step: those of condition i that differ
\* after it
StampsWritten(i) ==
    { conditions'[i][k] : k \in { f \in {"startShownTime", "endResolvedTime"} :
                                    conditions'[i][f] # conditions[i][f] } }

\* The shown flag of every condition and the simulated second it was shown
\* at, relative to the base time b
ShownSeconds(conds, b) ==
    [ i \in DOMAIN conds |->
        LET c == conds[i]
        IN << c.shown,
              IF c.startShownTime = Null THEN Null ELSE (c.startShownTime - b) \div 1000 >> ]

\* A step that calls presentAccordingToPolicy: the loop body and every tick
PolicyStep == (pc = "loop" /\ pc' # "return") \/ Tick

\* C31: a run is determined by the draws and does not depend on t0.  Every
\* step keeps t0 and writes timestamps only as t0 plus the clock in whole
\* seconds; the loop is left exactly when all conditions are resolved; and
\* for the state before the step taken to another base time b (every
\* timestamp moved by b - t0) the policy call of the step yields the shown
\* flags and shown seconds the step has produced, the pick at the head of
\* the loop is the target the step has chosen, and the preemption test and
\* its candidate are the ones the step has followed.  So the runs from two
\* base times agree state by state, second by second, and in the result,
\* which holds no timestamp.
C31_Deterministic ==
    [][ /\ t0' = t0
        /\ \A i \in Conds : StampsWritten(i) \subseteq { t0 + wallClockSec' * 1000 }
        /\ pc = "loop" => (pc' = "return" <=> allResolved(conditions))
        /\ \A b \in OtherBases :
              LET presented == presentAccordingToPolicy(Rebase(conditions, b), wallClockSec',
                                                        presentationPolicy, b)
              IN /\ PolicyStep => ShownSeconds(conditions', t0) = ShownSeconds(presented, b)
                 /\ (pc = "loop" /\ pc' # "return") =>
                       target' = pickNextAlarm(presented, userProfile.taskStrategy)
                 /\ pc = "work" =>
                       /\ target' # target <=> preempts(presented, target, userProfile)
                       /\ target' # target => target' = highestShownUnresolved(presented) ]_vars

\* C31 witness: an earliestShown operator has chosen between two Shown
\* conditions by their timestamps, one of them shown at second 0
C31_Witness ==
    /\ userProfile.taskStrategy = "earliestShown"
    /\ pc = "work"
    /\ conditions[target].startShownTime = t0
    /\ \E j \in Active(conditions) \ {target} :
          /\ j < target
          /\ conditions[j].startShownTime > t0
    /\ \E j \in Conds : conditions[j].resolved

\* The fields of an Aggregate Summary that are means, and those that are
\* percentiles
MeanFields == { "meanTime", "meanFatigue", "meanAccuracy", "meanHarm" }
PctFields == { "p50Time", "p90Time", "p50Fatigue", "p90Fatigue",
               "p50Acc", "p90Acc", "p50Harm", "p90Harm" }

\* The numeric fields of a Trial Result are defined and finite: the two
\* averages are quotients with a divisor other than zero
TrialResultFinite(r) ==
    /\ r.avgAccuracy[2] # 0
    /\ r.avgSpeedFactor[2] # 0
    /\ r.totalTimeSec >= 0
    /\ r.finalFatigue \in 0..FatigueUnit
    /\ r.totalHarm >= 0

\* C32: every numeric field of every Trial Result and of every Aggregate
\* Summary is a defined finite number: no mean is a quotient by zero and no
\* percentile is the undefined element of an empty list, for every N
\* (N = 0 included).
C32_AllFinite ==
    /\ pc = "done" => TrialResultFinite(result)
    /\ \A e \in 1..Len(out) :
          /\ \A k \in MeanFields : out[e].summary[k][2] # 0
          /\ \A k \in PctFields : out[e].summary[k] # Null

\* The Trial Result alone is always defined and finite
TrialResultAlwaysFinite == pc = "done" => TrialResultFinite(result)

\* A step in which a condition becomes the operator's target: the pick at
\* the head of the loop, or a switch inside the work loop
BecomesTarget ==
    \/ pc = "loop" /\ pc' = "work"
    \/ pc = "work" /\ target' # target

\* C33: whenever a condition becomes the operator's target, by the initial
\* pick or by a preemption switch, the policy has been applied for that
\* second first: the new target is Shown and unresolved in the conditions as
\* the policy of that second left them, and it was revealed at a second not
\* after the current one; this holds under every policy and strategy,
\* severityEscalation with preemptOnHigherSeverity included.
C33_PolicyBeforeSelection ==
    [][ BecomesTarget =>
          LET presented == presentAccordingToPolicy(conditions, wallClockSec',
                                                    presentationPolicy, t0)
          IN /\ target' \in Conds
             /\ target' \in Active(presented)
             /\ \A i \in Conds : /\ conditions'[i].shown = presented[i].shown
                                 /\ conditions'[i].startShownTime = presented[i].startShownTime
             /\ target' \in Active(conditions')
             /\ conditions'[target'].startShownTime # Null
             /\ SecOf(conditions'[target'].startShownTime) <= wallClockSec' ]_vars

\* C33 witness: under severityEscalation a preemptOnHigherSeverity operator
\* has switched, in the second in which the policy escalated, to the condition
\* revealed in that very second, the former target being hidden again
C33_Witness ==
    /\ presentationPolicy = "severityEscalation"
    /\ userProfile.taskStrategy = "preemptOnHigherSeverity"
    /\ pc = "work"
    /\ wallClockSec >= 1
    /\ conditions[target].shown
    /\ SecOf(conditions[target].startShownTime) = wallClockSec
    /\ conditions[target].workRemainingSec = conditions[target].workInitialSec
    /\ \E i \in OpenSessions \ {target} :
          /\ ~conditions[i].shown
          /\ ~conditions[i].resolved
          /\ conditions[i].severity < conditions[target].severity

\* C34: under severityEscalation at most one condition is Shown and
\* unresolved in every state of a trial, whatever the operator's task
\* strategy, so the policy's current condition (the first Shown and
\* unresolved one) is the only one.
C34_EscalationExclusive ==
    presentationPolicy = "severityEscalation" =>
        /\ userProfile.taskStrategy
              \in {"highestSeverity", "earliestShown", "preemptOnHigherSeverity"}
        /\ \A i, j \in Active(conditions) : i = j

\* C34 witness: under severityEscalation a condition revealed earlier has
\* been hidden again for a more severe one, which is the only Shown one,
\* while the operator still works on the hidden one
C34_Witness ==
    /\ presentationPolicy = "severityEscalation"
    /\ pc = "work"
    /\ ~conditions[target].shown
    /\ conditions[target].startShownTime # Null
    /\ Cardinality(Active(conditions)) = 1
    /\ \E j \in Active(conditions) :
          /\ conditions[j].severity > conditions[target].severity
          /\ SecOf(conditions[j].startShownTime) > SecOf(conditions[target].startShownTime)

\* The conditions whose remaining work is lowered by the step, and the
\* conditions whose session is opened by it
WorkDone(k) ==
    { i \in Conds : /\ conditions[i].workRemainingSec # Null
                    /\ conditions'[i].workRemainingSec = conditions[i].workRemainingSec - k }
SessionsOpened ==
    { i \in Conds : /\ conditions[i].workRemainingSec = Null
                    /\ conditions'[i].workRemainingSec # Null }
WorkKept ==
    { i \in Conds : conditions'[i].workRemainingSec = conditions[i].workRemainingSec }

\* The three kinds of simulated second
IdleSecond ==
    /\ target = NoTarget /\ target' = NoTarget
    /\ \A i \in Conds : conditions'[i].workRemainingSec = conditions[i].workRemainingSec
WorkSecond ==
    /\ target \in Conds /\ target' = target
    /\ WorkDone(1) = {target}
    /\ WorkKept = Conds \ {target}
PreemptionSecond ==
    /\ target \in Conds /\ target' \in Conds /\ target' # target
    /\ SessionsOpened \subseteq {target'}
    /\ WorkKept = Conds \ SessionsOpened

C36_ResolvedAfterShown ==
    \A i \in Conds :
        conditions[i].resolved =>
            /\ SecOf(conditions[i].endResolvedTime) - SecOf(conditions[i].startShownTime) >= 1
            /\ scoreTerm(conditions[i])[2] >= 1000
            /\ scoreTerm(conditions[i])[1] > 0

\* C36 witness: a trial has returned in which one condition was resolved
\* exactly one second after it was shown and another one later than that
C36_Witness ==
    /\ pc = "done"
    /\ \E i, j \in Conds :
          /\ conditions[i].resolved /\ conditions[j].resolved
          /\ conditions[i].endResolvedTime - conditions[i].startShownTime = 1000
          /\ conditions[j].endResolvedTime - conditions[j].startShownTime > 1000

\* The operator of the trial with the task strategy highestSeverity in
\* place of its own
AsHighestSeverity == [userProfile EXCEPT !.taskStrategy = "highestSeverity"]

\* C37: a preemptOnHigherSeverity operator with preemptThreshold = 0 never
\* switches target, and every step it takes is the step a highestSeverity
\* operator takes from the same state with the same draw: the same pick at
\* the head of the loop and the same session opened, a preemption test that
\* is negative for both operators in every pass of the work loop, and, as
\* for a highestSeverity operator, no open session but the target's.  The
\* runs therefore agree step by step in target, clock, fatigue and result.
C37_ThresholdZeroIsHighestSeverity ==
    [][ (userProfile.taskStrategy = "preemptOnHigherSeverity"
             /\ userProfile.preemptThreshold = 0) =>
          LET presented == presentAccordingToPolicy(conditions, wallClockSec',
                                                    presentationPolicy, t0)
          IN /\ OpenSessions \subseteq {target}
             /\ (pc = "loop" /\ pc' # "return") =>
                   target' = pickNextAlarm(presented, AsHighestSeverity.taskStrategy)
             /\ (pc = "loop" /\ pc' = "work") =>
                   \E jitter \in JitterDraws(AsHighestSeverity) :
                       conditions' = openSession(presented, target', AsHighestSeverity,
                                                 jitter, fatigue)
             /\ pc = "work" =>
                   /\ target' = target
                   /\ ~preempts(presented, target, userProfile)
                   /\ ~preempts(presented, target, AsHighestSeverity) ]_vars

\* C37 witness: an operator with preemptOnHigherSeverity and threshold 0 has
\* gone on working on its target, one second done, although a more severe
\* condition is Shown and waits without a session
C37_Witness ==
    /\ userProfile.taskStrategy = "preemptOnHigherSeverity"
    /\ userProfile.preemptThreshold = 0
    /\ pc = "work"
    /\ conditions[target].workRemainingSec = 1
    /\ conditions[target].workInitialSec = 2
    /\ \E j \in Active(conditions) :
          /\ conditions[j].severity > conditions[target].severity
          /\ conditions[j].workInitialSec = Null
          /\ SecOf(conditions[j].startShownTime) = wallClockSec

\* C38: in every Trial Result avgAccuracy = 0.9 * avgSpeedFactor, with
\* avgSpeedFactor in [0,1] and avgAccuracy in [0,0.9], the record of a trial
\* that resolved nothing included.  With avgAccuracy = a / d and
\* avgSpeedFactor = s / e: d = 10 * e and a = 9 * s give a / d = 0.9 * s / e;
\* 0 <= s <= e is avgSpeedFactor in [0,1], 0 <= 10 * a <= 9 * d is
\* avgAccuracy in [0,0.9].
C38_AccuracyIsScaledSpeed ==
    pc = "done" =>
        /\ result.avgAccuracy[2] = 10 * result.avgSpeedFactor[2]
        /\ result.avgAccuracy[1] = 9 * result.avgSpeedFactor[1]
        /\ result.avgSpeedFactor[2] > 0
        /\ 0 <= result.avgSpeedFactor[1]
        /\ result.avgSpeedFactor[1] <= result.avgSpeedFactor[2]
        /\ 0 <= result.avgAccuracy[1]
        /\ 10 * result.avgAccuracy[1] <= 9 * result.avgAccuracy[2]

\* C38 witness: a trial that ran into the cap with nothing resolved, fatigue
\* at its maximum, reports the averages of a fresh operator
C38_Witness ==
    /\ pc = "done"
    /\ result.resolved = 0
    /\ result.finalFatigue = FatigueUnit
    /\ result.totalTimeSec > CapSec
    /\ result.avgAccuracy = <<9, 10>>
    /\ result.avgSpeedFactor = <<1, 1>>

\* Trials that resolved at different fatigue levels report averages strictly
\* inside the ranges
C38_Inside ==
    /\ pc = "done"
    /\ result.resolved = 2
    /\ 0 < result.avgSpeedFactor[1]
    /\ result.avgSpeedFactor[1] < result.avgSpeedFactor[2]

====
